---- MODULE Spec2Model ----
(***************************************************************************)
(* A model of the record store of library.py (class Library): the books    *)
(* table behind the SQLAlchemy session, the operations add_book,           *)
(* remove_book, get_all_books, check_book_exist, clean and books_from_xml, *)
(* and the authors encoding form_author / form_authors.                    *)
(*                                                                         *)
(* Python strings are sequences of one-character strings; Python's None is *)
(* the value None below, which is no string.  A float is modelled by its   *)
(* number of tenths (1.5 is 15): the texts the model parses carry at most  *)
(* one fractional digit, and on those the doubles and the tenths           *)
(* correspond one to one.                                                  *)
(*                                                                         *)
(* Input domain: titles and categories are strings (never None), so no     *)
(* commit violates a NOT NULL constraint of the table.                     *)
(***************************************************************************)
EXTENDS Integers, Sequences, FiniteSets, TLC

VARIABLES
    books,      \* the rows of table 'books', in rowid (= id) order
    call,       \* the call being served, or NoCall
    result,     \* what that call returned or raised, or NoResult
    before      \* the rows of the table when that call was issued

vars == <<books, call, result, before>>

-----------------------------------------------------------------------------
(* Bounds of the model *)

MaxAuthors == 2

MaxId == 3

MaxBooksXml == 2

-----------------------------------------------------------------------------
(* Values *)

None == <<"None">>

Digits == {"0", "1", "2", "3", "4", "5", "6", "7", "8", "9"}

DigitVal(c) ==
    CASE c = "0" -> 0 [] c = "1" -> 1 [] c = "2" -> 2 [] c = "3" -> 3
      [] c = "4" -> 4 [] c = "5" -> 5 [] c = "6" -> 6 [] c = "7" -> 7
      [] c = "8" -> 8 [] c = "9" -> 9

Max(S) == CHOOSE x \in S : \A y \in S : y <= x

Range(s) == {s[i] : i \in 1..Len(s)}

Returned(v) == [status |-> "returned", exc |-> "", value |-> v]

Raised(e) == [status |-> "raised", exc |-> e, value |-> None]

NoResult == [status |-> "none", exc |-> "", value |-> None]

NoCall == [op |-> "none"]

-----------------------------------------------------------------------------
(* The authors encoding *)

RECURSIVE Join(_)
Join(authors) ==
    IF authors = <<>> THEN <<>>
    ELSE IF Len(authors) = 1 THEN authors[1]
    ELSE authors[1] \o <<",">> \o Join(Tail(authors))

\* a join with ", " between the names
RECURSIVE JoinSpaced(_)
JoinSpaced(authors) ==
    IF authors = <<>> THEN <<>>
    ELSE IF Len(authors) = 1 THEN authors[1]
    ELSE authors[1] \o <<",", " ">> \o JoinSpaced(Tail(authors))

form_author_spaced(authors) == JoinSpaced(authors)

form_author(authors) == Join(authors)

RECURSIVE Split(_, _)
Split(s, cur) ==
    IF s = <<>> THEN <<cur>>
    ELSE IF Head(s) = "," THEN <<cur>> \o Split(Tail(s), <<>>)
    ELSE Split(Tail(s), Append(cur, Head(s)))

form_authors(author) == Split(author, <<>>)

-----------------------------------------------------------------------------
(* The table and the operations of Library, as functions of the table *)

Titles(bs) == {bs[i].title : i \in 1..Len(bs)}

FirstWithTitle(bs, title) ==
    IF title \in Titles(bs)
    THEN CHOOSE i \in 1..Len(bs) :
            bs[i].title = title /\ \A j \in 1..(i - 1) : bs[j].title # title
    ELSE 0

\* a lookup that reads the first row only
check_book_exist_first_row(bs, title) == bs # <<>> /\ bs[1].title = title

\* a lookup that takes letters of either case as the same
check_book_exist_any_case(bs, title) ==
    LET lower(s) == [k \in 1..Len(s) |-> IF s[k] = "T" THEN "t" ELSE s[k]]
    IN  \E i \in 1..Len(bs) : lower(bs[i].title) = lower(title)

check_book_exist(bs, title) == FirstWithTitle(bs, title) # 0

NextId(bs) == IF bs = <<>> THEN 1 ELSE Max({bs[i].id : i \in 1..Len(bs)}) + 1

Book(id, category, title, author, year, price, language, cover) ==
    [id |-> id, category |-> category, title |-> title, author |-> author,
     year |-> year, price |-> price, language |-> language, cover |-> cover]

\* an add that overwrites the stored record of the same title
AddBookOverwrite(bs, category, title, authors, year, price, language, cover) ==
    LET i == FirstWithTitle(bs, title)
    IN  IF i # 0
        THEN [books |-> [bs EXCEPT ![i] = Book(bs[i].id, category, title, form_author(authors),
                                               year, price, language, cover)],
              result |-> Returned(bs[i].id)]
        ELSE [books |-> Append(bs, Book(NextId(bs), category, title, form_author(authors),
                                        year, price, language, cover)),
              result |-> Returned(NextId(bs))]

\* an add that puts the new record in the place of the stored one of the same
\* title
AddBookReplace(bs, category, title, authors, year, price, language, cover) ==
    LET i == FirstWithTitle(bs, title)
        rest == IF i # 0 THEN SubSeq(bs, 1, i - 1) \o SubSeq(bs, i + 1, Len(bs)) ELSE bs
        new_book == Book(NextId(bs), category, title, form_author(authors),
                         year, price, language, cover)
    IN  IF None \in Range(authors)
        THEN [books |-> bs, result |-> Raised("TypeError")]
        ELSE [books |-> Append(rest, new_book), result |-> Returned(new_book.id)]

AddBook(bs, category, title, authors, year, price, language, cover) ==
    IF check_book_exist(bs, title)
    THEN [books |-> bs, result |-> Raised("DuplicatedBookTitleError")]
    ELSE IF None \in Range(authors)
    THEN [books |-> bs, result |-> Raised("TypeError")]
    ELSE LET new_book == Book(NextId(bs), category, title, form_author(authors),
                              year, price, language, cover)
         IN  [books |-> Append(bs, new_book), result |-> Returned(new_book.id)]

\* a delete that takes the rows after row i with it
RemoveAtAndAfter(bs, i) == SubSeq(bs, 1, i - 1)

RemoveAt(bs, i) == SubSeq(bs, 1, i - 1) \o SubSeq(bs, i + 1, Len(bs))

\* a removal that says nothing when no record has the title
RemoveBookSilent(bs, name) ==
    LET book_to_remove == FirstWithTitle(bs, name)
    IN  IF book_to_remove # 0
        THEN [books |-> RemoveAt(bs, book_to_remove), result |-> Returned(None)]
        ELSE [books |-> bs, result |-> Returned(None)]

RemoveBook(bs, name) ==
    LET book_to_remove == FirstWithTitle(bs, name)
    IN  IF book_to_remove # 0
        THEN [books |-> RemoveAt(bs, book_to_remove), result |-> Returned(None)]
        ELSE [books |-> bs, result |-> Raised("BookNotFoundError")]

BookDict(book) ==
    [title |-> book.title, year |-> book.year, category |-> book.category,
     authors |-> form_authors(book.author), price |-> book.price,
     language |-> book.language, cover |-> book.cover]

\* a listing that starts from the newest row
GetAllBooksNewestFirst(bs) == [i \in 1..Len(bs) |-> BookDict(bs[Len(bs) + 1 - i])]

GetAllBooks(bs) == [i \in 1..Len(bs) |-> BookDict(bs[i])]

\* a clean that deletes the first row only
CleanFirst(bs) == IF bs = <<>> THEN <<>> ELSE Tail(bs)

Clean(bs) == <<>>

-----------------------------------------------------------------------------
(* int() and float() on the texts of an XML file *)

IsDigits(s) == s # <<>> /\ \A i \in 1..Len(s) : s[i] \in Digits

RECURSIVE Decimal(_)
Decimal(s) ==
    IF s = <<>> THEN 0
    ELSE 10 * Decimal(SubSeq(s, 1, Len(s) - 1)) + DigitVal(s[Len(s)])

Signed(s) == s # <<>> /\ Head(s) \in {"-", "+"}

Unsigned(s) == IF Signed(s) THEN Tail(s) ELSE s

Sign(s) == IF Signed(s) /\ Head(s) = "-" THEN -1 ELSE 1

Parsed(v) == [exc |-> "", value |-> v]

ParseError(e) == [exc |-> e, value |-> 0]

\* int(text)
ParseInt(text) ==
    IF text = None THEN ParseError("TypeError")
    ELSE IF IsDigits(Unsigned(text))
    THEN Parsed(Sign(text) * Decimal(Unsigned(text)))
    ELSE ParseError("ValueError")

Dots(s) == {i \in 1..Len(s) : s[i] = "."}

\* float(text), in tenths
ParseFloat(text) ==
    IF text = None THEN ParseError("TypeError")
    ELSE LET body == Unsigned(text)
         IN  IF Dots(body) = {}
             THEN IF IsDigits(body)
                  THEN Parsed(Sign(text) * 10 * Decimal(body))
                  ELSE ParseError("ValueError")
             ELSE LET dot == CHOOSE i \in Dots(body) : TRUE
                      whole == SubSeq(body, 1, dot - 1)
                      frac == SubSeq(body, dot + 1, Len(body))
                  IN  IF /\ Cardinality(Dots(body)) = 1
                         /\ whole \o frac # <<>>
                         /\ \A i \in 1..Len(whole) : whole[i] \in Digits
                         /\ \A i \in 1..Len(frac) : frac[i] \in Digits
                      THEN Parsed(Sign(text) * (10 * Decimal(whole)
                                    + (IF frac = <<>> THEN 0 ELSE DigitVal(frac[1]))))
                      ELSE ParseError("ValueError")

-----------------------------------------------------------------------------
(* books_from_xml *)

EmptyDict == <<>>

\* d[k] = v
Put(d, k, v) == (k :> v) @@ d

\* d.update(other)
Update(d, other) == other @@ d

\* d.get(k, None)
Get(d, k) == IF k \in DOMAIN d THEN d[k] ELSE None

\* a loop that puts each author in front of the ones collected
RECURSIVE SubchildrenPrepend(_, _, _)
SubchildrenPrepend(record, authors, subs) ==
    IF subs = <<>> THEN [record |-> record, authors |-> authors]
    ELSE LET subchild == Head(subs)
             authors1 == IF subchild.tag = "author"
                         THEN <<subchild.text>> \o authors ELSE authors
             record1 == IF subchild.tag = "author"
                        THEN record ELSE Put(record, subchild.tag, subchild.text)
             record2 == IF DOMAIN subchild.attrib # {}
                        THEN Update(record1, subchild.attrib) ELSE record1
         IN  SubchildrenPrepend(record2, authors1, Tail(subs))

\* the loop over the nested elements of one child of the root
RECURSIVE Subchildren(_, _, _)
Subchildren(record, authors, subs) ==
    IF subs = <<>> THEN [record |-> record, authors |-> authors]
    ELSE LET subchild == Head(subs)
             authors1 == IF subchild.tag = "author"
                         THEN Append(authors, subchild.text) ELSE authors
             record1 == IF subchild.tag = "author"
                        THEN record ELSE Put(record, subchild.tag, subchild.text)
             record2 == IF DOMAIN subchild.attrib # {}
                        THEN Update(record1, subchild.attrib) ELSE record1
         IN  Subchildren(record2, authors1, Tail(subs))

\* a collection that lets the attributes of the book element win
CandidateAttribLast(child) ==
    LET loop == Subchildren(EmptyDict, <<>>, child.children)
    IN  Put(Update(loop.record, child.attrib), "authors", loop.authors)

\* the record collected from one child of the root
Candidate(child) ==
    LET record0 == IF DOMAIN child.attrib # {}
                   THEN Update(EmptyDict, child.attrib) ELSE EmptyDict
        loop == Subchildren(record0, <<>>, child.children)
    IN  Put(loop.record, "authors", loop.authors)

Candidates(root) == [i \in 1..Len(root) |-> Candidate(root[i])]

\* the loop that submits the collected records to add_book, in order
RECURSIVE AddRecords(_, _)
AddRecords(bs, records) ==
    IF records = <<>> THEN [books |-> bs, result |-> Returned(None)]
    ELSE LET record == Head(records)
             year == ParseInt(Get(record, "year"))
             price == ParseFloat(Get(record, "price"))
         IN  IF \E k \in {"category", "title", "year"} : k \notin DOMAIN record
             THEN [books |-> bs, result |-> Raised("KeyError")]
             ELSE IF year.exc # ""
             THEN [books |-> bs, result |-> Raised(year.exc)]
             ELSE IF "price" \notin DOMAIN record
             THEN [books |-> bs, result |-> Raised("KeyError")]
             ELSE IF price.exc # ""
             THEN [books |-> bs, result |-> Raised(price.exc)]
             ELSE LET r == AddBook(bs, record["category"], record["title"],
                                   record["authors"], year.value, price.value,
                                   Get(record, "language"), Get(record, "cover"))
                  IN  IF r.result.status = "raised" THEN r
                      ELSE AddRecords(r.books, Tail(records))

\* an import that creates all the records of the file or none
BooksFromXmlAtomic(bs, file) ==
    IF file.kind = "missing" THEN [books |-> bs, result |-> Raised("WrongXmlPathError")]
    ELSE IF file.kind = "directory" THEN [books |-> bs, result |-> Raised("IsADirectoryError")]
    ELSE IF file.kind = "unreadable" THEN [books |-> bs, result |-> Raised("PermissionError")]
    ELSE IF file.kind = "malformed" THEN [books |-> bs, result |-> Raised("ParseError")]
    ELSE LET r == AddRecords(bs, Candidates(file.root))
         IN  IF r.result.status = "raised" THEN [books |-> bs, result |-> r.result] ELSE r

\* an import that adds each book element as it reads it, up to the place where
\* the text stops being well-formed
BooksFromXmlStreaming(bs, file) ==
    IF file.kind = "missing" THEN [books |-> bs, result |-> Raised("WrongXmlPathError")]
    ELSE IF file.kind = "directory" THEN [books |-> bs, result |-> Raised("IsADirectoryError")]
    ELSE IF file.kind = "unreadable" THEN [books |-> bs, result |-> Raised("PermissionError")]
    ELSE IF file.kind = "malformed"
    THEN LET r == AddRecords(bs, Candidates(file.root))
         IN  IF r.result.status = "raised" THEN r
             ELSE [books |-> r.books, result |-> Raised("ParseError")]
    ELSE AddRecords(bs, Candidates(file.root))

\* what open() and ElementTree.XML() make of the file at the path
BooksFromXml(bs, file) ==
    IF file.kind = "missing" THEN [books |-> bs, result |-> Raised("WrongXmlPathError")]
    ELSE IF file.kind = "directory" THEN [books |-> bs, result |-> Raised("IsADirectoryError")]
    ELSE IF file.kind = "unreadable" THEN [books |-> bs, result |-> Raised("PermissionError")]
    ELSE IF file.kind = "malformed" THEN [books |-> bs, result |-> Raised("ParseError")]
    ELSE AddRecords(bs, Candidates(file.root))

-----------------------------------------------------------------------------
(* Inputs of the direct calls *)

TitleSet == {<<"t">>, <<"T">>}

AuthorNames == {<<"a">>, <<"b">>}

\* lists a caller may also pass: an empty name, a name holding the delimiter
OddAuthorLists == {<< <<>> >>, << <<"a", ",", "b">> >>, << <<"a">>, <<>> >>}

RECURSIVE SeqsUpTo(_, _)
SeqsUpTo(S, n) ==
    IF n = 0 THEN {<<>>}
    ELSE LET shorter == SeqsUpTo(S, n - 1)
         IN  shorter \cup {Append(s, x) : s \in {t \in shorter : Len(t) = n - 1}, x \in S}

AuthorLists == SeqsUpTo(AuthorNames, MaxAuthors) \cup OddAuthorLists

Details ==
    {[category |-> <<"c">>, year |-> 1, price |-> 15, language |-> None, cover |-> None],
     [category |-> <<"d">>, year |-> 2, price |-> 20, language |-> <<>>, cover |-> <<"h">>]}

-----------------------------------------------------------------------------
(* Inputs of books_from_xml: what is at the path *)

NoAttrib == <<>>

Element(tag, text, attrib) == [tag |-> tag, text |-> text, attrib |-> attrib]

BookElement(attrib, children) ==
    [tag |-> "book", text |-> None, attrib |-> attrib, children |-> children]

XTitle(t) == Element("title", t, NoAttrib)
XCategory == Element("category", <<"c">>, NoAttrib)
XYear == Element("year", <<"1">>, NoAttrib)
XPrice == Element("price", <<"1", ".", "5">>, NoAttrib)
XAuthor(a) == Element("author", a, NoAttrib)

\* every field as a nested element, one author
PlainBooks ==
    {BookElement(NoAttrib, <<XTitle(t), XCategory, XYear, XPrice, XAuthor(<<"a">>)>>) :
        t \in TitleSet}

\* all seven fields, two authors, in another order
FullBook ==
    BookElement(NoAttrib,
        <<XAuthor(<<"b">>), XTitle(<<"T">>), Element("year", <<"0", "2">>, NoAttrib),
          Element("cover", <<"h">>, NoAttrib), Element("category", <<"d">>, NoAttrib),
          Element("price", <<"2", ".">>, NoAttrib), Element("language", <<"e">>, NoAttrib),
          XAuthor(<<"a">>)>>)

\* every field as an attribute of the book element
AttribBook ==
    BookElement([title |-> <<"t">>, category |-> <<"c">>, year |-> <<"1">>,
                 price |-> <<"1", ".", "5">>, language |-> <<>>],
                <<XAuthor(<<"a">>)>>)

BadYearBook ==
    BookElement(NoAttrib, <<XTitle(<<"t">>), XCategory, Element("year", <<"x">>, NoAttrib),
                            XPrice, XAuthor(<<"a">>)>>)

BadPriceBook ==
    BookElement(NoAttrib, <<XTitle(<<"t">>), XCategory, XYear,
                            Element("price", <<".">>, NoAttrib), XAuthor(<<"a">>)>>)

NoPriceBook ==
    BookElement(NoAttrib, <<XTitle(<<"t">>), XCategory, XYear, XAuthor(<<"a">>)>>)

NoAuthorBook ==
    BookElement(NoAttrib, <<XTitle(<<"T">>), XCategory, XYear, XPrice>>)

\* <author/>: its text is None
EmptyAuthorBook ==
    BookElement(NoAttrib, <<XTitle(<<"T">>), XCategory, XYear, XPrice, XAuthor(None)>>)

CommaAuthorBook ==
    BookElement(NoAttrib, <<XTitle(<<"T">>), XCategory, XYear, XPrice,
                            XAuthor(<<"a", ",", "b">>)>>)

\* a title attribute on the book element and a nested title element
BookAttribAndNested ==
    BookElement([title |-> <<"T">>],
                <<XTitle(<<"t">>), XCategory, XYear, XPrice, XAuthor(<<"a">>)>>)

\* a title attribute on a nested element after the nested title element
NestedThenAttrib ==
    BookElement(NoAttrib,
        <<XTitle(<<"t">>), Element("category", <<"c">>, [title |-> <<"T">>]),
          XYear, XPrice, XAuthor(<<"a">>)>>)

\* a title attribute on a nested element before the nested title element
AttribThenNested ==
    BookElement(NoAttrib,
        <<Element("category", <<"c">>, [title |-> <<"T">>]), XTitle(<<"t">>),
          XYear, XPrice, XAuthor(<<"a">>)>>)

XmlBooks ==
    PlainBooks \cup
    {FullBook, AttribBook, BadYearBook, BadPriceBook, NoPriceBook, NoAuthorBook,
     EmptyAuthorBook, CommaAuthorBook, BookAttribAndNested, NestedThenAttrib,
     AttribThenNested}

\* no file, a directory, a file the process may not read
NoFiles == {[kind |-> "missing"], [kind |-> "directory"], [kind |-> "unreadable"]}

\* text that is no well-formed XML, after the book elements of root
MalformedFiles == {[kind |-> "malformed", root |-> root] : root \in SeqsUpTo(PlainBooks, 1)}

XmlFiles(n) == {[kind |-> "xml", root |-> root] : root \in SeqsUpTo(XmlBooks, n)}

Files == NoFiles \cup MalformedFiles \cup XmlFiles(MaxBooksXml)

\* the files of at most one book element
SmallFiles == NoFiles \cup MalformedFiles \cup XmlFiles(1)

\* the direct calls that build what a plain book element builds
PlainAuthorLists == {<< <<"a">> >>}

PlainDetails == {d \in Details : d.language = None}

-----------------------------------------------------------------------------
(* The state machine: a caller issues one call at a time *)

Idle == call.op = "none"

Init ==
    /\ books = <<>>
    /\ call = NoCall
    /\ result = NoResult
    /\ before = <<>>

add_book(author_lists, details) ==
    /\ Idle
    /\ NextId(books) <= MaxId
    /\ \E title \in TitleSet, authors \in author_lists, d \in details :
        LET r == AddBook(books, d.category, title, authors, d.year, d.price,
                         d.language, d.cover)
        IN  /\ call' = [op |-> "add_book", category |-> d.category, title |-> title,
                        authors |-> authors, year |-> d.year, price |-> d.price,
                        language |-> d.language, cover |-> d.cover]
            /\ books' = r.books
            /\ result' = r.result
            /\ before' = books

remove_book ==
    /\ Idle
    /\ \E name \in TitleSet :
        LET r == RemoveBook(books, name)
        IN  /\ call' = [op |-> "remove_book", name |-> name]
            /\ books' = r.books
            /\ result' = r.result
            /\ before' = books

get_all_books ==
    /\ Idle
    /\ call' = [op |-> "get_all_books"]
    /\ result' = Returned(GetAllBooks(books))
    /\ before' = books
    /\ UNCHANGED books

check_book_exist_call ==
    /\ Idle
    /\ \E title \in TitleSet :
        /\ call' = [op |-> "check_book_exist", title |-> title]
        /\ result' = Returned(check_book_exist(books, title))
        /\ before' = books
        /\ UNCHANGED books

books_from_xml(files) ==
    /\ Idle
    /\ \E file \in files :
        LET r == BooksFromXml(books, file)
        IN  /\ \A i \in 1..Len(r.books) : r.books[i].id <= MaxId
            /\ call' = [op |-> "books_from_xml", file |-> file]
            /\ books' = r.books
            /\ result' = r.result
            /\ before' = books

clean ==
    /\ Idle
    /\ call' = [op |-> "clean"]
    /\ books' = Clean(books)
    /\ result' = Returned(None)
    /\ before' = books

Return ==
    /\ ~Idle
    /\ call' = NoCall
    /\ result' = NoResult
    /\ before' = books
    /\ UNCHANGED books

\* every direct call, and imports of at most one book element
Next ==
    \/ add_book(AuthorLists, Details)
    \/ remove_book
    \/ get_all_books
    \/ check_book_exist_call
    \/ books_from_xml(SmallFiles)
    \/ clean
    \/ Return

Spec == Init /\ [][Next]_vars

\* every import, and the direct calls that build what a plain book element builds
XmlNext ==
    \/ add_book(PlainAuthorLists, PlainDetails)
    \/ remove_book
    \/ get_all_books
    \/ check_book_exist_call
    \/ books_from_xml(Files)
    \/ clean
    \/ Return

XmlSpec == Init /\ [][XmlNext]_vars

-----------------------------------------------------------------------------
(* The claims *)

IsCall(op) == call.op = op

Raises(e) == result.status = "raised" /\ result.exc = e

Returns == result.status = "returned"

\* C1: after any sequence of add_book, remove_book, clean and books_from_xml
\* calls, successful or failing, from an empty store, no two stored records
\* have the same title (titles compared exactly, case-sensitively).
C1_UniqueTitles ==
    \A i, j \in 1..Len(books) : i # j => books[i].title # books[j].title

\* a call that offered a stored title was turned down, next to a record whose
\* title differs from it in case only
C1_Witness ==
    /\ Len(books) = 2
    /\ books[1].title = <<"t">> /\ books[2].title = <<"T">>
    /\ Raises("DuplicatedBookTitleError")

\* C2: an add_book call whose title is stored fails with
\* DuplicatedBookTitleError and leaves the table as it was, whatever its other
\* fields; and a title, once created, stays stored across every call that is
\* neither remove_book nor clean, so the second of two creations of a title
\* with no removal in between is such a call.
C2_SecondCreateFails ==
    /\ (IsCall("add_book") /\ call.title \in Titles(before))
           => (Raises("DuplicatedBookTitleError") /\ books = before)
    /\ (IsCall("add_book") /\ Returns) => call.title \in Titles(books)
    /\ (~IsCall("remove_book") /\ ~IsCall("clean")) => Titles(before) \subseteq Titles(books)

\* a second creation of a stored title with other fields was turned down
C2_Witness ==
    /\ IsCall("add_book")
    /\ Raises("DuplicatedBookTitleError")
    /\ \E i \in 1..Len(before) :
        /\ before[i].title = call.title
        /\ before[i].category # call.category
        /\ before[i].author # form_author(call.authors)

ValidAuthors(authors) ==
    /\ authors # <<>>
    /\ \A i \in 1..Len(authors) :
        /\ authors[i] # None
        /\ authors[i] # <<>>
        /\ "," \notin Range(authors[i])

\* C3: after a successful add_book whose authors are a non-empty list of
\* non-empty names without a comma, get_all_books holds exactly one record
\* with that title, and its category, title, year, price, language, cover and
\* authors (same names, same order) are the ones passed.
C3_RoundTrip ==
    (IsCall("add_book") /\ Returns /\ ValidAuthors(call.authors)) =>
        LET all == GetAllBooks(books)
            hits == {i \in 1..Len(all) : all[i].title = call.title}
        IN  /\ Cardinality(hits) = 1
            /\ \A i \in hits :
                /\ all[i].category = call.category
                /\ all[i].year = call.year
                /\ all[i].price = call.price
                /\ all[i].language = call.language
                /\ all[i].cover = call.cover
                /\ all[i].authors = call.authors

\* a book of two different authors was added next to another book
C3_Witness ==
    /\ IsCall("add_book") /\ Returns
    /\ ValidAuthors(call.authors)
    /\ Len(call.authors) = 2 /\ call.authors[1] # call.authors[2]
    /\ Len(books) = 2

IsImport == IsCall("books_from_xml") /\ call.file.kind = "xml"

\* the records the import of the call collected, and how many it created
CallRecords == Candidates(call.file.root)

Created == Len(books) - Len(before)

\* what stops the creation of a record while the titles of `stored` are stored
Defects(record, stored) ==
    (IF \E k \in {"category", "title", "year", "price"} : k \notin DOMAIN record
     THEN {"KeyError"} ELSE {})
    \cup (IF "year" \in DOMAIN record /\ ParseInt(record["year"]).exc # ""
          THEN {ParseInt(record["year"]).exc} ELSE {})
    \cup (IF "price" \in DOMAIN record /\ ParseFloat(record["price"]).exc # ""
          THEN {ParseFloat(record["price"]).exc} ELSE {})
    \cup (IF "title" \in DOMAIN record /\ record["title"] \in stored
          THEN {"DuplicatedBookTitleError"} ELSE {})
    \cup (IF None \in Range(record["authors"]) THEN {"TypeError"} ELSE {})

\* C4: an import creates the records of the candidates before the first one
\* whose creation fails (a stored title, a year that is no integer, a price
\* that is no number), in document order after the records stored before; it
\* fails with an error of that candidate, keeps the records created for the
\* earlier candidates, and creates none for it or a later one.
C4_PrefixCommit ==
    IsImport =>
        LET n == Created
        IN  /\ n \in 0..Len(CallRecords)
            /\ SubSeq(books, 1, Len(before)) = before
            /\ \A j \in 1..n :
                /\ books[Len(before) + j].title = CallRecords[j]["title"]
                /\ Defects(CallRecords[j],
                           Titles(before) \cup {CallRecords[i]["title"] : i \in 1..(j - 1)}) = {}
            /\ Returns => n = Len(CallRecords)
            /\ result.status = "raised" =>
                /\ n < Len(CallRecords)
                /\ result.exc \in Defects(CallRecords[n + 1], Titles(books))

\* the second book element of a file failed after the first was created
C4_Witness ==
    /\ IsImport
    /\ result.status = "raised"
    /\ result.exc \in {"DuplicatedBookTitleError", "ValueError"}
    /\ Created = 1
    /\ Len(CallRecords) = 2

\* C5: books_from_xml on a path that does not exist or cannot be opened, for
\* any reason (no file, a file that may not be read, a directory), fails with
\* WrongXmlPathError and creates no record.
C5_InvalidSource ==
    (IsCall("books_from_xml") /\ call.file.kind \in {"missing", "directory", "unreadable"})
        => (Raises("WrongXmlPathError") /\ books = before)

\* C6: remove_book of a title that is not stored fails with BookNotFoundError
\* and leaves the stored records and the result of get_all_books as they were.
C6_RemoveMissing ==
    (IsCall("remove_book") /\ call.name \notin Titles(before)) =>
        /\ Raises("BookNotFoundError")
        /\ books = before
        /\ GetAllBooks(books) = GetAllBooks(before)

\* the removal of a title that is not stored failed on a store that holds a record
C6_Witness ==
    /\ IsCall("remove_book")
    /\ Raises("BookNotFoundError")
    /\ Len(books) = 1

KeepsTitle(book) == book.title # call.name

\* C7: remove_book of a stored title removes the one record of that title and
\* nothing else: afterwards check_book_exist of it is false, get_all_books
\* holds no record of that title, and every other record is stored as before.
C7_RemoveStored ==
    (IsCall("remove_book") /\ call.name \in Titles(before)) =>
        /\ Returns
        /\ ~check_book_exist(books, call.name)
        /\ \A i \in 1..Len(books) : GetAllBooks(books)[i].title # call.name
        /\ Len(books) = Len(before) - 1
        /\ books = SelectSeq(before, KeepsTitle)

\* the first of two stored records was removed
C7_Witness ==
    /\ IsCall("remove_book") /\ Returns
    /\ Len(before) = 2
    /\ before[1].title = call.name
    /\ Len(books) = 1

FieldNames == {"title", "category", "year", "price", "language", "cover"}

\* the places of book element e that give field f: an attribute of e, a nested
\* element of tag f, an attribute of a nested element
GivenCount(e, f) ==
    (IF f \in DOMAIN e.attrib THEN 1 ELSE 0)
    + Cardinality({i \in 1..Len(e.children) : e.children[i].tag = f})
    + Cardinality({i \in 1..Len(e.children) : f \in DOMAIN e.children[i].attrib})

\* the value of field f in a book element that gives it in one place
GivenValue(e, f) ==
    IF f \in DOMAIN e.attrib THEN e.attrib[f]
    ELSE IF \E i \in 1..Len(e.children) : e.children[i].tag = f
    THEN e.children[CHOOSE i \in 1..Len(e.children) : e.children[i].tag = f].text
    ELSE e.children[CHOOSE i \in 1..Len(e.children) : f \in DOMAIN e.children[i].attrib].attrib[f]

IsAuthor(element) == element.tag = "author"

AuthorTexts(e) ==
    LET elements == SelectSeq(e.children, IsAuthor)
    IN  [i \in 1..Len(elements) |-> elements[i].text]

\* int() and float() of the texts of year and price
Convert(f, text) ==
    IF f = "year" THEN ParseInt(text).value
    ELSE IF f = "price" THEN ParseFloat(text).value
    ELSE text

\* a book element that gives every required field once, the optional ones at
\* most once, a year and a price that parse, and at least one author, every
\* author free of commas
WellFormedBook(e) ==
    /\ \A f \in {"title", "category", "year", "price"} : GivenCount(e, f) = 1
    /\ \A f \in {"language", "cover"} : GivenCount(e, f) <= 1
    /\ GivenValue(e, "title") # None /\ GivenValue(e, "category") # None
    /\ ParseInt(GivenValue(e, "year")).exc = ""
    /\ ParseFloat(GivenValue(e, "price")).exc = ""
    /\ ValidAuthors(AuthorTexts(e))

ExpectedDict(e) ==
    [title |-> GivenValue(e, "title"),
     year |-> Convert("year", GivenValue(e, "year")),
     category |-> GivenValue(e, "category"),
     authors |-> AuthorTexts(e),
     price |-> Convert("price", GivenValue(e, "price")),
     language |-> IF GivenCount(e, "language") = 0 THEN None ELSE GivenValue(e, "language"),
     cover |-> IF GivenCount(e, "cover") = 0 THEN None ELSE GivenValue(e, "cover")]

WellFormedRoot(root) ==
    /\ \A i \in 1..Len(root) : WellFormedBook(root[i])
    /\ \A i, j \in 1..Len(root) :
        i # j => GivenValue(root[i], "title") # GivenValue(root[j], "title")

\* C8: the import, into an empty store, of a file of N book elements of
\* pairwise distinct titles, each with parseable year and price and at least
\* one author, its authors free of commas, succeeds, and get_all_books then
\* returns N records in document order, the i-th with the title, category,
\* year, price, language, cover and authors (in document order) of the i-th
\* book element.
C8_ImportRoundTrip ==
    (IsImport /\ before = <<>> /\ WellFormedRoot(call.file.root)) =>
        /\ Returns
        /\ GetAllBooks(books) =
               [i \in 1..Len(call.file.root) |-> ExpectedDict(call.file.root[i])]

\* two book elements were imported into an empty store, one of two authors
C8_Witness ==
    /\ IsImport /\ Returns
    /\ before = <<>>
    /\ WellFormedRoot(call.file.root)
    /\ Len(call.file.root) = 2
    /\ \E i \in 1..2 : Len(AuthorTexts(call.file.root[i])) = 2

\* the values the attributes of book element e and of its nested elements give field f
AttribValues(e, f) ==
    (IF f \in DOMAIN e.attrib THEN {e.attrib[f]} ELSE {})
    \cup {e.children[i].attrib[f] :
            i \in {k \in 1..Len(e.children) : f \in DOMAIN e.children[k].attrib}}

NestedGiven(e, f) == \E i \in 1..Len(e.children) : e.children[i].tag = f

\* the book element and the created record of the j-th candidate of the call
CallElement(j) == call.file.root[j]

CreatedBook(j) == books[Len(before) + j]

\* C9 as claimed: where a field is given both by an attribute (of the book
\* element or of a nested element) and by the text of a nested element of that
\* tag, the created record holds the value of the attribute.
C9_AttributeWins ==
    IsImport =>
        \A j \in 1..Created : \A f \in FieldNames :
            (AttribValues(CallElement(j), f) # {} /\ NestedGiven(CallElement(j), f)) =>
                CreatedBook(j)[f] \in {Convert(f, v) : v \in AttribValues(CallElement(j), f)}

\* the values nested elements write to field f, in document order: each
\* element's text under its tag, then its attributes
RECURSIVE NestedWrites(_, _)
NestedWrites(children, f) ==
    IF children = <<>> THEN <<>>
    ELSE (IF Head(children).tag = f THEN <<Head(children).text>> ELSE <<>>)
         \o (IF f \in DOMAIN Head(children).attrib THEN <<Head(children).attrib[f]>> ELSE <<>>)
         \o NestedWrites(Tail(children), f)

\* the attribute of the book element first, then what the nested elements write
Writes(e, f) ==
    (IF f \in DOMAIN e.attrib THEN <<e.attrib[f]>> ELSE <<>>) \o NestedWrites(e.children, f)

Last(s) == s[Len(s)]

\* C9 amended: the created record holds, for each field, the value written
\* last, the book element's own attributes being written first and then, for
\* each nested element in document order, its text and after it its
\* attributes.  An attribute of the book element loses to the text of a nested
\* element of that tag; an attribute of a nested element wins over the nested
\* texts of that tag up to and including its own element and loses to a later
\* one.  A field nothing writes is None.
C9_LastWriteWins ==
    IsImport =>
        \A j \in 1..Created : \A f \in FieldNames :
            /\ Writes(CallElement(j), f) # <<>> =>
                   CreatedBook(j)[f] = Convert(f, Last(Writes(CallElement(j), f)))
            /\ Writes(CallElement(j), f) = <<>> => CreatedBook(j)[f] = None

\* a record was created with the title an attribute of a nested element gave
\* after the nested title element
C9_Witness ==
    /\ IsImport
    /\ \E j \in 1..Created :
        /\ NestedGiven(CallElement(j), "title")
        /\ "title" \notin DOMAIN CallElement(j).attrib
        /\ AttribValues(CallElement(j), "title") # {}
        /\ CreatedBook(j).title \in AttribValues(CallElement(j), "title")
        /\ CreatedBook(j).title # GivenValue(CallElement(j), "title")

\* C10: every record get_all_books returns has at least one author and no
\* author that is the empty string, whatever authors add_book was given and
\* whatever author elements the imported book elements had.
C10_AuthorsNeverEmpty ==
    \A i \in 1..Len(books) :
        LET authors == GetAllBooks(books)[i].authors
        IN  /\ Len(authors) >= 1
            /\ \A k \in 1..Len(authors) : authors[k] # <<>>

\* C11: clean on a store of any number of records returns without an error
\* and leaves a store on which get_all_books returns the empty list and
\* check_book_exist is false for every title, those stored before included;
\* on an empty store it changes nothing, so a second clean equals the first.
C11_CleanEmpties ==
    IsCall("clean") =>
        /\ Returns
        /\ books = <<>>
        /\ GetAllBooks(books) = <<>>
        /\ \A title \in TitleSet \cup Titles(before) : ~check_book_exist(books, title)
        /\ before = <<>> => books = before
        /\ Clean(books) = books

\* clean was called on a store of two records
C11_Witness ==
    /\ IsCall("clean")
    /\ Len(before) = 2
    /\ books = <<>>

\* C12: check_book_exist(title) returns True when a record of exactly that
\* title is stored and False otherwise, and changes nothing: False on the
\* store as constructed, True of a title after an add_book of it that
\* returned, False of it after a remove_book of it that returned, and False
\* of every title after clean.
C12_ExistsAgrees ==
    /\ IsCall("check_book_exist") =>
        /\ Returns
        /\ result.value = (\E i \in 1..Len(before) : before[i].title = call.title)
        /\ before = <<>> => result.value = FALSE
        /\ books = before
    /\ (IsCall("add_book") /\ Returns) => check_book_exist(books, call.title)
    /\ (IsCall("remove_book") /\ Returns) => ~check_book_exist(books, call.name)
    /\ IsCall("clean") => \A title \in TitleSet : ~check_book_exist(books, title)

\* check_book_exist said False of a title that differs in case only from the
\* title of the one stored record
C12_Witness ==
    /\ IsCall("check_book_exist")
    /\ result.value = FALSE
    /\ Len(books) = 1
    /\ books[1].title = <<"t">>
    /\ call.title = <<"T">>

StoredBefore(book) == book \in Range(before)

StoredAfter(book) == book \in Range(books)

IsMalformedImport == IsCall("books_from_xml") /\ call.file.kind = "malformed"

\* C14: books_from_xml on a file that opens but whose text is not well-formed
\* XML fails with the parser's ParseError and creates no record, the store
\* and the result of get_all_books being as before the call, also when
\* well-formed book elements of titles not yet stored come before the
\* malformed part.
C14_ParseBeforeCreate ==
    IsMalformedImport =>
        /\ Raises("ParseError")
        /\ books = before
        /\ GetAllBooks(books) = GetAllBooks(before)

\* the import of a malformed file failed on a store of one record, the file
\* holding a well-formed book element of a title that was not stored
C14_Witness ==
    /\ IsMalformedImport
    /\ Raises("ParseError")
    /\ Len(before) = 1
    /\ Len(call.file.root) = 1
    /\ CallRecords[1]["title"] \notin Titles(before)

\* C15: a books_from_xml call, whether it returns or fails and whatever the
\* file, leaves every record that was stored before it in its place with
\* every field as it was, so that get_all_books lists them first and in the
\* same order; the records it creates come after them and have titles that
\* were not stored; a book element whose title was stored makes the call
\* fail, and no record is created for it or changed by it.
C15_ImportOnlyAdds ==
    IsCall("books_from_xml") =>
        /\ Len(books) >= Len(before)
        /\ \A i \in 1..Len(before) :
            /\ books[i] = before[i]
            /\ GetAllBooks(books)[i] = GetAllBooks(before)[i]
        /\ \A i \in (Len(before) + 1)..Len(books) : books[i].title \notin Titles(before)
        /\ IsImport =>
            \A j \in 1..Len(CallRecords) :
                ("title" \in DOMAIN CallRecords[j] /\ CallRecords[j]["title"] \in Titles(before))
                    => (result.status = "raised" /\ Created < j)

\* an import created a record for its first book element and failed at the
\* second, whose title was that of the record stored before the call
C15_Witness ==
    /\ IsImport
    /\ Raises("DuplicatedBookTitleError")
    /\ Len(before) = 1
    /\ Len(books) = 2
    /\ Len(CallRecords) = 2
    /\ CallRecords[2]["title"] = before[1].title
    /\ books[1] = before[1]

====
